---- MODULE Spec2Model ----
(***************************************************************************)
(* Model of src/server/src/adminApis.ts (HFS admin API).                   *)
(*                                                                         *)
(* JavaScript handlers run to completion: every synchronous handler        *)
(* (get_connections, get_plugins, an EventEmitter callback) is one atomic  *)
(* action.  An async handler is cut at its awaits and at the callbacks it  *)
(* installs (readline 'line' / 'close', socket 'finish').                  *)
(***************************************************************************)
EXTENDS Integers, Sequences, FiniteSets, TLC

\* ---------------------------------------------------------------- bounds
MaxReqs == 2        \* streaming requests accepted by the server
MaxConns == 2       \* connections the tracker ever sees
MaxPlugins == 1     \* plugin identifiers
MaxMuts == 2        \* producer mutations (published events) in one run
MaxLines == 2       \* entries ever written to the named log

Reqs == 1..MaxReqs
Conns == 1..MaxConns
Plugins == 1..MaxPlugins

\* ------------------------------------------------------- request contexts
\* the three facts of a Koa context that ctxAdminAccess reads
Ctxs == [local : BOOLEAN, proxied : BOOLEAN, admin : BOOLEAN]
\* the context the model starts with: a remote administrator
AdminCtx == [local |-> FALSE, proxied |-> FALSE, admin |-> TRUE]

LoggerNames == {"log"}          \* names of the configured loggers
FileParams == {"log", "nope"}   \* values of get_log's 'file' parameter

VARIABLES
    config,     \* configuration store: port, https_port, localhost_admin, disable_plugins
    srv,        \* getStatus(): listening flag of the http and https servers
    files,      \* names of the files written by writeFile
    vfs,        \* the store of a handler spread in from vfsApis / accountsApis was written
    pem,        \* save_pem between its two writes: the pending name ("" when none)
    ret,        \* what the last completed save_pem returned: the two file names
    caller,     \* ctx of the request being dispatched: what ctxAdminAccess reads of it
    last,       \* what the most recent call returned (or where it is suspended)
    conns,      \* getConnections(): tracked connections, in insertion order
    sock,       \* state of each connection's socket
    ctxIp,      \* conn.ctx?.ip of each connection ("" while conn.ctx is unset)
    loaded,     \* plugin registry: loaded plugins, in order
    avail,      \* plugin registry: available (not loaded) plugins, in order
    logLen,     \* number of entries in the named log's file (entries are 1..logLen)
    bus,        \* listeners of the 'events' emitter, in registration order
    res,        \* outcome of each streaming request ("idle" before its handler ran)
    kind,       \* which list a request streams: "connections", "plugins", "log"
    closed,     \* ctx.res has emitted 'close' (and ctx.aborted is set)
    closeL,     \* an unsubscribe function is installed with ctx.res.once('close', ..)
    off,        \* the unsubscribe function built for the request: the listeners it removes
    offRuns,    \* how many times that unsubscribe function has run
    stream,     \* frames pushed to the request's Readable, oldest first
    lpos,       \* get_log: number of lines of the file already emitted by readline
    lstate,     \* get_log: "none", "reading", "eof", "stopped" (input.close()) or "live"
    dcall,      \* the disconnect call: its state, the connection found, 'wait', the result
    snap,       \* observer: producer enumeration when the request was handled
    muts,       \* observer: diffs of the mutations published while the subscription was active
    late,       \* observer: frames pushed after the request's connection had closed
    abortAt,    \* observer: what the request was doing when its connection closed
    nmut        \* observer: number of producer mutations so far

vars == << config, srv, files, vfs, pem, ret, caller, last, conns, sock, ctxIp, loaded, avail, logLen,
           bus, res, kind, closed, closeL, off, offRuns, stream, lpos, lstate,
           dcall, snap, muts, late, abortAt, nmut >>

adminVars == << config, srv, files, vfs, pem, ret, caller >>
prodVars == << conns, sock, ctxIp, loaded, avail, logLen >>
reqVars == << res, kind, closed, closeL, off, offRuns, lpos, lstate >>
chanVars == << bus, stream >>
obsVars == << snap, muts, late, abortAt, nmut >>


\* ------------------------------------------------------------ access gate
\* ctxAdminAccess with the && of the first disjunct binding looser than the ||
ctxAdminAccess_noPrecedence(cfg, ctx) ==
    ctx.local /\ cfg.localhost_admin /\ (~ctx.proxied \/ ctx.admin)

\* ctxAdminAccess: isLocalHost && localhost_admin && !proxiedFor || account.admin
ctxAdminAccess(cfg, ctx) ==
    (ctx.local /\ cfg.localhost_admin /\ ~ctx.proxied) \/ ctx.admin

\* the wrapper loop leaving one handler (save_pem) unwrapped
Guard_skipsOne(cfg, ctx, op) == op = "save_pem" \/ ctxAdminAccess(cfg, ctx)

\* the loop over adminApis: every handler k runs only if ctxAdminAccess(ctx)
Guard(cfg, ctx, op) == ctxAdminAccess(cfg, ctx)

\* ---------------------------------------------------------------- frames
Frame(t, k, d) == [t |-> t, k |-> k, d |-> d]
InitFrame == Frame("init", <<>>, "")

\* address and port of a connection's socket
RemoteAddress(c) == "a"
RemotePort(c) == c

\* getConnAddress: ctx.ip when the connection has a ctx, else the socket's address
getConnAddress(cip, c) ==
    << IF cip[c] # "" THEN cip[c] ELSE RemoteAddress(c), RemotePort(c) >>

\* serializeConnection: the key, plus the other fields unless minimal
serializeConnection(cip, c, minimal) ==
    [k |-> getConnAddress(cip, c), d |-> IF minimal THEN "" ELSE "full"]

\* serialize (get_plugins) and the records of getAvailablePlugins
serialize(p) == [k |-> <<p>>, d |-> "loaded"]
availableRec(p) == [k |-> <<p>>, d |-> "available"]

\* ---------------------------------------------------- sendList's channel
listAdd(s, rec) == Append(s, Frame("add", rec.k, rec.d))
listRemove(s, key) == Append(s, Frame("remove", key, ""))
\* sendList's update that pushes nothing
listUpdate_dropped(s, search, change) == s
listUpdate(s, search, change) == Append(s, Frame("update", search, change))

RECURSIVE AddAll(_, _)
AddAll(s, recs) ==
    IF recs = << >> THEN s ELSE AddAll(listAdd(s, Head(recs)), Tail(recs))

\* sendList that pushes the marker before the initial items
sendList_markerFirst(addAtStart) == AddAll(<< InitFrame >>, addAtStart)

\* sendList: one add per initial item, then 'init'
sendList(addAtStart) == Append(AddAll(<< >>, addAtStart), InitFrame)

\* ------------------------------------------------------------- event bus
Listener(ev, h) == [ev |-> ev, h |-> h]

RECURSIVE Listeners(_, _)
Listeners(eventMap, h) ==
    IF eventMap = << >> THEN << >>
    ELSE << Listener(Head(eventMap), h) >> \o Listeners(Tail(eventMap), h)

\* onOff, registering half: em.on(e, cb) for every entry of the map
onOff(b, eventMap, h) == b \o Listeners(eventMap, h)

\* em.off(e, cb): removes the most recently added instance of the listener
RECURSIVE RemoveListener(_, _)
RemoveListener(b, l) ==
    IF b = << >> THEN b
    ELSE IF b[Len(b)] = l THEN SubSeq(b, 1, Len(b) - 1)
    ELSE Append(RemoveListener(SubSeq(b, 1, Len(b) - 1), l), b[Len(b)])

\* the function onOff returns: em.off(e, cb) for every entry of the map
RECURSIVE RunOff(_, _)
RunOff(o, b) ==
    IF o = << >> THEN b ELSE RunOff(Tail(o), RemoveListener(b, Head(o)))

Count(b, ev, h) == Cardinality({ i \in DOMAIN b : b[i] = Listener(ev, h) })

RECURSIVE Rep(_, _)
Rep(fs, n) == IF n = 0 THEN << >> ELSE fs \o Rep(fs, n - 1)

\* events.emit(ev, ..): every listener of ev runs; each pushes the frames fs to the
\* stream of its own request
Emit(b, ev, fs, s) == [r \in Reqs |-> s[r] \o Rep(fs, Count(b, ev, r))]

\* frames that Emit pushes to streams whose connection has already closed
Late(b, ev, l) == [r \in Reqs |-> l[r] + (IF closed[r] THEN Count(b, ev, r) ELSE 0)]

\* sendList.events whose unsubscribe function misses the first entry of the map
Events_keepsFirst(b, r, eventMap) ==
    [bus |-> onOff(b, eventMap, r), off |-> Listeners(Tail(eventMap), r)]

\* sendList.events calling onOff twice and keeping the second unsubscribe only
Events_twice(b, r, eventMap) ==
    [bus |-> onOff(onOff(b, eventMap, r), eventMap, r), off |-> Listeners(eventMap, r)]

RECURSIVE ListenersOfAll(_, _)
ListenersOfAll(eventMap, n) ==
    IF n = 0 THEN << >> ELSE ListenersOfAll(eventMap, n - 1) \o Listeners(eventMap, n)

\* sendList.events whose unsubscribe function removes every listener of the map's
\* events, whichever request registered it
Events_removesAll(b, r, eventMap) ==
    [bus |-> onOff(b, eventMap, r), off |-> ListenersOfAll(eventMap, MaxReqs)]

\* sendList.events: off = onOff(events, eventMap); ctx.res.once('close', off)
Events(b, r, eventMap) ==
    [bus |-> onOff(b, eventMap, r), off |-> Listeners(eventMap, r)]


\* ------------------------------------------------------------------ Init
\* a file is named by its base name and its extension; no file at all
NoFiles == [cert |-> << >>, private_key |-> << >>]

DefaultConfig ==
    [port |-> 80, https_port |-> 443, localhost_admin |-> TRUE, disable_plugins |-> << >>]

InitRest ==
    /\ files = {} /\ vfs = FALSE /\ pem = "" /\ ret = NoFiles /\ caller = AdminCtx /\ last = "none"
    /\ conns = << >> /\ sock = [c \in Conns |-> "none"] /\ ctxIp = [c \in Conns |-> ""]
    /\ loaded = << >> /\ avail = << >> /\ logLen = 0
    /\ bus = << >>
    /\ res = [r \in Reqs |-> "idle"] /\ kind = [r \in Reqs |-> "none"]
    /\ closed = [r \in Reqs |-> FALSE] /\ closeL = [r \in Reqs |-> FALSE]
    /\ off = [r \in Reqs |-> << >>] /\ offRuns = [r \in Reqs |-> 0]
    /\ stream = [r \in Reqs |-> << >>]
    /\ lpos = [r \in Reqs |-> 0] /\ lstate = [r \in Reqs |-> "none"]
    /\ dcall = [st |-> "idle", c |-> 0, wait |-> FALSE, result |-> FALSE]
    /\ snap = [r \in Reqs |-> << >>] /\ muts = [r \in Reqs |-> << >>]
    /\ late = [r \in Reqs |-> 0] /\ abortAt = [r \in Reqs |-> "open"] /\ nmut = 0

\* the server as started with the default configuration, both listeners up
Init ==
    /\ config = DefaultConfig
    /\ srv = [http |-> TRUE, https |-> TRUE]
    /\ InitRest

\* ------------------------------------------------- streaming operations
\* request slots and connection numbers are interchangeable: they are used in order
NextReq(r) == res[r] = "idle" /\ (IF r = 1 THEN TRUE ELSE res[r - 1] # "idle")
NextConn(c) == sock[c] = "none" /\ (IF c = 1 THEN TRUE ELSE sock[c - 1] # "none")

Unauthorized(r) ==
    /\ res' = [res EXCEPT ![r] = "401"]
    /\ last' = "401"
    /\ UNCHANGED << adminVars, prodVars, chanVars, dcall, obsVars,
                    kind, closed, closeL, off, offRuns, lpos, lstate >>

RECURSIVE SerializeAll(_, _)
SerializeAll(cip, cs) ==
    IF cs = << >> THEN << >>
    ELSE << serializeConnection(cip, Head(cs), FALSE) >> \o SerializeAll(cip, Tail(cs))

RECURSIVE MapPlugins(_)
MapPlugins(ps) ==
    IF ps = << >> THEN << >> ELSE << serialize(Head(ps)) >> \o MapPlugins(Tail(ps))

RECURSIVE GetAvailablePlugins(_)
GetAvailablePlugins(ps) ==
    IF ps = << >> THEN << >>
    ELSE << availableRec(Head(ps)) >> \o GetAvailablePlugins(Tail(ps))

\* get_connections' event map without its connectionClosed entry
ConnectionEvents_noClosed == << "connection", "connectionUpdated" >>

\* the event maps of get_connections and get_plugins
ConnectionEvents == << "connection", "connectionClosed", "connectionUpdated" >>
PluginEvents ==
    << "pluginLoaded", "pluginUnloaded", "pluginAvailableNoMore", "pluginAvailable" >>

\* a list handler: sendList(initial items), then list.events(ctx, eventMap)
\* observer: the producer's current items, in enumeration order
Enumerate(k) ==
    IF k = "connections"
    THEN [i \in 1..Len(conns) |-> [k |-> getConnAddress(ctxIp, conns[i]), d |-> "full"]]
    ELSE [i \in 1..Len(loaded) |-> [k |-> << loaded[i] >>, d |-> "loaded"]]
         \o [i \in 1..Len(avail) |-> [k |-> << avail[i] >>, d |-> "available"]]

ListHandler(r, k, items, eventMap) ==
    LET e == Events(bus, r, eventMap) IN
    /\ stream' = [stream EXCEPT ![r] = sendList(items)]
    /\ bus' = e.bus
    /\ off' = [off EXCEPT ![r] = e.off]
    /\ closeL' = [closeL EXCEPT ![r] = TRUE]
    /\ res' = [res EXCEPT ![r] = "stream"]
    /\ last' = "stream"
    /\ kind' = [kind EXCEPT ![r] = k]
    /\ snap' = [snap EXCEPT ![r] = Enumerate(k)]
    /\ UNCHANGED << adminVars, prodVars, dcall, closed, offRuns, lpos, lstate,
                    muts, late, abortAt, nmut >>

\* get_connections, behind the wrapper
GetConnections(r) ==
    /\ NextReq(r)
    /\ IF Guard(config, caller, "get_connections")
       THEN ListHandler(r, "connections", SerializeAll(ctxIp, conns), ConnectionEvents)
       ELSE Unauthorized(r)

\* get_plugins, behind the wrapper
GetPlugins(r) ==
    /\ NextReq(r)
    /\ IF Guard(config, caller, "get_plugins")
       THEN ListHandler(r, "plugins",
                        MapPlugins(loaded) \o GetAvailablePlugins(avail), PluginEvents)
       ELSE Unauthorized(r)


\* parse(line): the structured entry of the n-th line of the log
parse(n) == [k |-> << n >>, d |-> "entry"]

\* loggers.find returning the first logger whatever the name asked for
findLogger_first(file) == "log"

\* loggers.find(l => l.name === file); "" stands for undefined
findLogger(file) == IF file \in LoggerNames THEN file ELSE ""

\* get_log, behind the wrapper: 404 for an unknown logger, else start reading the file
GetLog(r, file) ==
    /\ NextReq(r)
    /\ IF ~Guard(config, caller, "get_log") THEN Unauthorized(r)
       ELSE IF findLogger(file) = ""
       THEN /\ res' = [res EXCEPT ![r] = "404"]
            /\ last' = "404"
            /\ UNCHANGED << adminVars, prodVars, chanVars, dcall, obsVars,
                            kind, closed, closeL, off, offRuns, lpos, lstate >>
       ELSE /\ res' = [res EXCEPT ![r] = "stream"]
            /\ last' = "stream"
            /\ kind' = [kind EXCEPT ![r] = "log"]
            /\ lstate' = [lstate EXCEPT ![r] = "reading"]
            /\ UNCHANGED << adminVars, prodVars, chanVars, dcall, obsVars,
                            closed, closeL, off, offRuns, lpos >>

\* readline 'line': input.close() if ctx.aborted, else push the parsed line
LogLine(r) ==
    /\ lstate[r] = "reading" /\ lpos[r] < logLen
    /\ IF closed[r]
       THEN /\ lstate' = [lstate EXCEPT ![r] = "stopped"]
            /\ UNCHANGED << stream, lpos >>
       ELSE /\ stream' = [stream EXCEPT ![r] = listAdd(stream[r], parse(lpos[r] + 1))]
            /\ lpos' = [lpos EXCEPT ![r] = lpos[r] + 1]
            /\ UNCHANGED lstate
    /\ UNCHANGED << adminVars, last, prodVars, bus, dcall, obsVars,
                    res, kind, closed, closeL, off, offRuns >>

\* createReadStream finds no more data in the file: the read stream will end and
\* readline will close in a later turn of the event loop; what is appended to the
\* file from now on is not read
LogEof(r) ==
    /\ lstate[r] = "reading" /\ lpos[r] = logLen
    /\ lstate' = [lstate EXCEPT ![r] = "eof"]
    /\ UNCHANGED << adminVars, last, prodVars, chanVars, dcall, obsVars,
                    res, kind, closed, closeL, off, offRuns, lpos >>

\* readline 'close' after the end of the file:
\* ctx.res.once('close', onOff(events, { [logger.name]: entry => ret.push({ add: entry }) }))
LogClose(r) ==
    /\ lstate[r] = "eof"
    /\ bus' = onOff(bus, << "log" >>, r)
    /\ off' = [off EXCEPT ![r] = Listeners(<< "log" >>, r)]
    /\ closeL' = [closeL EXCEPT ![r] = TRUE]
    /\ lstate' = [lstate EXCEPT ![r] = "live"]
    /\ UNCHANGED << adminVars, last, prodVars, stream, dcall, obsVars,
                    res, kind, closed, offRuns, lpos >>

\* ------------------------------------------------------ connection close
\* ctx.res emits 'close' (once): ctx.aborted is set and the once-listeners run
Close(r) ==
    /\ ~closed[r] /\ res[r] \in {"idle", "stream"}
    /\ closed' = [closed EXCEPT ![r] = TRUE]
    /\ IF closeL[r]
       THEN /\ bus' = RunOff(off[r], bus)
            /\ offRuns' = [offRuns EXCEPT ![r] = offRuns[r] + 1]
            /\ closeL' = [closeL EXCEPT ![r] = FALSE]
       ELSE UNCHANGED << bus, offRuns, closeL >>
    /\ abortAt' = [abortAt EXCEPT ![r] =
                       IF res[r] = "idle" THEN "idle"
                       ELSE IF kind[r] = "log" THEN lstate[r] ELSE "live"]
    /\ UNCHANGED << adminVars, last, prodVars, stream, dcall, snap, muts, late, nmut,
                    res, kind, off, lpos, lstate >>

\* -------------------------------------------------------------- producers
\* observer: the diff of a mutation of producer k, for every active subscription to k
Observe(k, diff) ==
    [r \in Reqs |-> IF res[r] = "stream" /\ kind[r] = k /\ offRuns[r] = 0
                    THEN Append(muts[r], diff) ELSE muts[r]]

\* a mutation of producer k publishing event ev; fs is what one listener of ev pushes,
\* diff is the DiffOp that describes the mutation
Publish(k, ev, fs, diff) ==
    /\ nmut < MaxMuts
    /\ nmut' = nmut + 1
    /\ stream' = Emit(bus, ev, fs, stream)
    /\ late' = Late(bus, ev, late)
    /\ muts' = Observe(k, diff)
    /\ UNCHANGED << adminVars, last, bus, reqVars, snap, abortAt >>

RemoveAt(q, x) == SelectSeq(q, LAMBDA y : y # x)
InSeq(q, x) == \E i \in DOMAIN q : q[i] = x

CtxIps == {"a", "x"}    \* ctx.ip of a request: the socket's address, or a forwarded one

\* connections.ts: a socket is accepted; 'connection' is emitted
\* get_connections' listener:  connection: conn => list.add(serializeConnection(conn))
NewConnection(c) ==
    /\ NextConn(c)
    /\ sock' = [sock EXCEPT ![c] = "open"]
    /\ conns' = Append(conns, c)
    /\ Publish("connections", "connection",
               listAdd(<< >>, serializeConnection(ctxIp, c, FALSE)),
               [t |-> "add", k |-> getConnAddress(ctxIp, c), d |-> "full"])
    /\ UNCHANGED << ctxIp, loaded, avail, logLen, dcall >>

\* connections.ts: the connection changes; 'connectionUpdated' is emitted with the change
\* get_connections' listener: change.ctx is replaced by fromCtx(change.ctx), then list.update
ConnectionUpdated(c, change, ip) ==
    /\ InSeq(conns, c)
    /\ ctxIp' = IF change = "ctx" THEN [ctxIp EXCEPT ![c] = ip] ELSE ctxIp
    /\ Publish("connections", "connectionUpdated",
               listUpdate(<< >>, serializeConnection(ctxIp', c, TRUE).k,
                          IF change = "ctx" THEN "path" ELSE change),
               [t |-> "update", k |-> getConnAddress(ctxIp', c),
                d |-> IF change = "ctx" THEN "path" ELSE "got"])
    /\ UNCHANGED << conns, sock, loaded, avail, logLen, dcall >>

\* the socket emits 'close': the tracker drops it and emits 'connectionClosed'
\* get_connections' listener: list.remove(serializeConnection(conn, true))
SocketClose(c) ==
    /\ sock[c] \in {"open", "finished"}
    /\ sock' = [sock EXCEPT ![c] = "closed"]
    /\ conns' = RemoveAt(conns, c)
    /\ Publish("connections", "connectionClosed",
               listRemove(<< >>, serializeConnection(ctxIp, c, TRUE).k),
               [t |-> "remove", k |-> getConnAddress(ctxIp, c), d |-> ""])
    /\ UNCHANGED << ctxIp, loaded, avail, logLen, dcall >>

\* plugin registry mutations and get_plugins' four listeners
PluginLoaded(p) ==
    /\ ~InSeq(loaded, p)
    /\ loaded' = Append(loaded, p)
    /\ Publish("plugins", "pluginLoaded", listAdd(<< >>, serialize(p)),
               [t |-> "add", k |-> << p >>, d |-> "loaded"])
    /\ UNCHANGED << conns, sock, ctxIp, avail, logLen, dcall >>

PluginUnloaded(p) ==
    /\ InSeq(loaded, p)
    /\ loaded' = RemoveAt(loaded, p)
    /\ Publish("plugins", "pluginUnloaded", listRemove(<< >>, << p >>),
               [t |-> "remove", k |-> << p >>, d |-> ""])
    /\ UNCHANGED << conns, sock, ctxIp, avail, logLen, dcall >>

PluginAvailable(p) ==
    /\ ~InSeq(avail, p)
    /\ avail' = Append(avail, p)
    /\ Publish("plugins", "pluginAvailable", listAdd(<< >>, availableRec(p)),
               [t |-> "add", k |-> << p >>, d |-> "available"])
    /\ UNCHANGED << conns, sock, ctxIp, loaded, logLen, dcall >>

PluginAvailableNoMore(p) ==
    /\ InSeq(avail, p)
    /\ avail' = RemoveAt(avail, p)
    /\ Publish("plugins", "pluginAvailableNoMore", listRemove(<< >>, << p >>),
               [t |-> "remove", k |-> << p >>, d |-> ""])
    /\ UNCHANGED << conns, sock, ctxIp, loaded, logLen, dcall >>

\* the log module appends an entry to the file and emits it under the logger's name
\* get_log's listener: ret.push({ add: entry })
LogAppend ==
    /\ logLen < MaxLines
    /\ logLen' = logLen + 1
    /\ stream' = Emit(bus, "log", listAdd(<< >>, parse(logLen + 1)), stream)
    /\ late' = Late(bus, "log", late)
    /\ UNCHANGED << adminVars, last, bus, reqVars, dcall, snap, muts, abortAt, nmut,
                    conns, sock, ctxIp, loaded, avail >>


\* ------------------------------------------------------------ disconnect
\* getConnections().find(c => match(getConnAddress(c))); 0 stands for undefined
RECURSIVE FindConn(_, _, _)
FindConn(cs, cip, key) ==
    IF cs = << >> THEN 0
    ELSE IF getConnAddress(cip, Head(cs)) = key THEN Head(cs)
    ELSE FindConn(Tail(cs), cip, key)

Keys == {"a", "x"} \X Conns     \* (ip, port) parameters of disconnect

\* disconnect up to its await: c?.socket.end(waiter.resolve); without 'wait' it returns
Disconnect(key, wait) ==
    /\ dcall.st = "idle"
    /\ IF ~Guard(config, caller, "disconnect")
       THEN /\ last' = "401"
            /\ UNCHANGED << sock, dcall >>
       ELSE LET c == FindConn(conns, ctxIp, key) IN
            /\ sock' = IF c # 0 THEN [sock EXCEPT ![c] = "ending"] ELSE sock
            /\ dcall' = [st |-> IF wait THEN "waiting" ELSE "returned",
                         c |-> c, wait |-> wait, result |-> c # 0]
            /\ last' = IF wait THEN "waiting" ELSE "ok"
    /\ UNCHANGED << adminVars, conns, ctxIp, loaded, avail, logLen,
                    chanVars, reqVars, obsVars >>

\* socket.end's callback: the writable side has finished (FIN sent), the socket is not
\* closed yet; waiter.resolve runs and a waiting disconnect returns
SocketFinish(c) ==
    /\ sock[c] = "ending"
    /\ sock' = [sock EXCEPT ![c] = "finished"]
    /\ dcall' = IF dcall.st = "waiting" /\ dcall.c = c
                THEN [dcall EXCEPT !.st = "returned"] ELSE dcall
    /\ UNCHANGED << adminVars, last, conns, ctxIp, loaded, avail, logLen,
                    chanVars, reqVars, obsVars >>

\* ------------------------------------------------- non-streaming operations
Refused ==
    /\ last' = "401"
    /\ UNCHANGED << config, srv, files, vfs, pem, ret >>

\* v.k ?? d
Nullish(v, k, d) == IF k \in DOMAIN v THEN v[k] ELSE d

\* config.ts setConfig: the given keys replace the stored ones
setConfig(cfg, v) == [k \in DOMAIN cfg |-> IF k \in DOMAIN v THEN v[k] ELSE cfg[k]]

\* set_config's test reading v.port without the fallback to the stored value
BothOff_noFallback(v, cfg, st) ==
    /\ ("port" \in DOMAIN v /\ v.port < 0) \/ ~st.http
    /\ ("https_port" \in DOMAIN v /\ v.https_port < 0) \/ ~st.https

\* set_config: noHttp && noHttps
BothOff(v, cfg, st) ==
    /\ Nullish(v, "port", cfg.port) < 0 \/ ~st.http
    /\ Nullish(v, "https_port", cfg.https_port) < 0 \/ ~st.https

\* set_config, behind the wrapper; hasV is FALSE when 'values' is not given
SetConfig(hasV, v) ==
    /\ IF ~Guard(config, caller, "set_config") THEN Refused
       ELSE IF hasV /\ BothOff(v, config, srv)
       THEN /\ last' = "FORBIDDEN"
            /\ UNCHANGED << config, srv, files, vfs, pem, ret >>
       ELSE /\ config' = IF hasV THEN setConfig(config, v) ELSE config
            /\ last' = "ok"
            /\ UNCHANGED << srv, files, vfs, pem, ret >>
    /\ UNCHANGED << caller, prodVars, chanVars, reqVars, dcall, obsVars >>

\* listen.ts: the servers follow the configuration; a listener on an enabled port may
\* be down (port busy), a listener on a disabled port is down
SrvStates(cfg) ==
    { st \in [http : BOOLEAN, https : BOOLEAN] :
        (st.http => cfg.port >= 0) /\ (st.https => cfg.https_port >= 0) }

SrvUpdate ==
    /\ \E st \in SrvStates(config) : st # srv /\ srv' = st
    /\ UNCHANGED << config, files, vfs, pem, ret, caller, last, prodVars, chanVars, reqVars,
                    dcall, obsVars >>

\* get_config, get_status: read-only
ReadOp(op) ==
    /\ IF ~Guard(config, caller, op) THEN Refused
       ELSE /\ last' = "ok"
            /\ UNCHANGED << config, srv, files, vfs, pem, ret >>
    /\ UNCHANGED << caller, prodVars, chanVars, reqVars, dcall, obsVars >>

\* save_pem's test accepting a request that carries one of the two
Missing_both(cert, key) == ~cert /\ ~key

\* save_pem: !cert || !private_key
Missing(cert, key) == ~cert \/ ~key

\* save_pem: files = { cert: name + '.cert', private_key: name + '.key' }
pemFiles(name) == [cert |-> << name, "cert" >>, private_key |-> << name, "key" >>]

\* save_pem up to its first await: 400 if cert or key is missing, else the key is written
SavePem(cert, key, name) ==
    /\ pem = ""
    /\ IF ~Guard(config, caller, "save_pem") THEN Refused
       ELSE IF Missing(cert, key)
       THEN /\ last' = "400"
            /\ UNCHANGED << config, srv, files, vfs, pem, ret >>
       ELSE /\ files' = files \cup { pemFiles(name).private_key }
            /\ pem' = name
            /\ last' = "writing"
            /\ UNCHANGED << config, srv, vfs, ret >>
    /\ UNCHANGED << caller, prodVars, chanVars, reqVars, dcall, obsVars >>

\* save_pem after the first await: the certificate is written, the names are returned
SavePemCert ==
    /\ pem # ""
    /\ files' = files \cup { pemFiles(pem).cert }
    /\ pem' = ""
    /\ ret' = pemFiles(pem)
    /\ last' = "ok"
    /\ UNCHANGED << config, srv, vfs, caller, prodVars, chanVars, reqVars, dcall, obsVars >>

\* set_plugin appending without looking whether the identifier is already listed
setPlugin_noTest(a, id, hasD, disable) ==
    IF hasD THEN (IF disable THEN Append(a, id) ELSE RemoveAt(a, id)) ELSE a

\* set_plugin's new value of disable_plugins: a itself when setConfig is not called
setPlugin(a, id, hasD, disable) ==
    IF hasD /\ (InSeq(a, id) # disable)
    THEN (IF disable THEN Append(a, id) ELSE RemoveAt(a, id))
    ELSE a

\* set_plugin, behind the wrapper; hasD is FALSE when 'disable' is undefined
SetPlugin(id, hasD, disable) ==
    /\ IF ~Guard(config, caller, "set_plugin") THEN Refused
       ELSE /\ config' = [config EXCEPT !.disable_plugins =
                              setPlugin(config.disable_plugins, id, hasD, disable)]
            /\ last' = "ok"
            /\ UNCHANGED << srv, files, vfs, pem, ret >>
    /\ UNCHANGED << caller, prodVars, chanVars, reqVars, dcall, obsVars >>

\* a handler spread in from vfsApis / accountsApis that writes its store
SpreadOp(op) ==
    /\ IF ~Guard(config, caller, op) THEN Refused
       ELSE /\ vfs' = TRUE
            /\ last' = "ok"
            /\ UNCHANGED << config, srv, files, pem, ret >>
    /\ UNCHANGED << caller, prodVars, chanVars, reqVars, dcall, obsVars >>

\* a request reaches the api middleware with its own context
Arrive(ctx) ==
    /\ caller' = ctx
    /\ UNCHANGED << config, srv, files, vfs, pem, ret, last, prodVars, chanVars, reqVars,
                    dcall, obsVars >>

\* ---------------------------------------------------------- specifications
Ports == {-1, 80}
HttpsPorts == {-1, 443}

\* 'values' objects given to set_config
ConfigValues ==
    UNION { [S -> {-1, 80, 443}] : S \in SUBSET {"port", "https_port"} }

Values(v) ==
    /\ "port" \in DOMAIN v => v.port \in Ports
    /\ "https_port" \in DOMAIN v => v.https_port \in HttpsPorts

\* the list streams: get_connections and get_plugins with their producers
Next ==
    \/ \E r \in Reqs : GetConnections(r)
    \/ \E r \in Reqs : GetPlugins(r)
    \/ \E r \in Reqs : Close(r)
    \/ \E c \in Conns : NewConnection(c)
    \/ \E c \in Conns, change \in {"got", "ctx"}, ip \in CtxIps : ConnectionUpdated(c, change, ip)
    \/ \E c \in Conns : SocketClose(c)
    \/ \E p \in Plugins : PluginLoaded(p)
    \/ \E p \in Plugins : PluginUnloaded(p)
    \/ \E p \in Plugins : PluginAvailable(p)
    \/ \E p \in Plugins : PluginAvailableNoMore(p)

Spec == Init /\ [][Next]_vars

\* the log stream: get_log, readline, the log module
NextLog ==
    \/ \E r \in Reqs, file \in FileParams : GetLog(r, file)
    \/ \E r \in Reqs : LogLine(r)
    \/ \E r \in Reqs : LogEof(r)
    \/ \E r \in Reqs : LogClose(r)
    \/ \E r \in Reqs : Close(r)
    \/ LogAppend

SpecLog == Init /\ [][NextLog]_vars

\* disconnect against a connection list being streamed
NextDisc ==
    \/ \E r \in Reqs : GetConnections(r)
    \/ \E r \in Reqs : Close(r)
    \/ \E c \in Conns : NewConnection(c)
    \/ \E c \in Conns : SocketClose(c)
    \/ \E c \in Conns : SocketFinish(c)
    \/ \E key \in Keys, wait \in BOOLEAN : Disconnect(key, wait)

SpecDisc == Init /\ [][NextDisc]_vars

PemNames == {"self", "my"}      \* values of save_pem's 'name' ('self' when not given)

\* the configuration operations, from any configuration the server can run with
InitAdmin ==
    /\ config \in [port : Ports, https_port : HttpsPorts,
                   localhost_admin : BOOLEAN, disable_plugins : {<< >>}]
    /\ srv \in SrvStates(config)
    /\ InitRest

NextAdmin ==
    \/ \E ctx \in Ctxs : Arrive(ctx)
    \/ \E hasV \in BOOLEAN, v \in ConfigValues : Values(v) /\ SetConfig(hasV, v)
    \/ SrvUpdate
    \/ \E op \in {"get_config", "get_status"} : ReadOp(op)
    \/ \E cert \in BOOLEAN, key \in BOOLEAN, name \in PemNames : SavePem(cert, key, name)
    \/ SavePemCert
    \/ \E id \in Plugins, hasD \in BOOLEAN, disable \in BOOLEAN : SetPlugin(id, hasD, disable)

SpecAdmin == InitAdmin /\ [][NextAdmin]_vars

\* every operation of adminApis, called with every kind of context
GateValues == { [localhost_admin |-> b] : b \in BOOLEAN }
\* the gate is decided call by call: one streaming request and one plugin suffice
GateReq == CHOOSE r \in Reqs : \A q \in Reqs : r <= q
GatePlugin == CHOOSE p \in Plugins : \A q \in Plugins : p <= q
GateKey == CHOOSE key \in Keys : TRUE

GateCall ==
    \/ GetConnections(GateReq)
    \/ GetPlugins(GateReq)
    \/ \E file \in FileParams : GetLog(GateReq, file)
    \/ Disconnect(GateKey, FALSE)
    \/ \E v \in GateValues : SetConfig(TRUE, v)
    \/ ReadOp("get_status")
    \/ SavePem(TRUE, TRUE, "self")
    \/ SetPlugin(GatePlugin, TRUE, TRUE)
    \/ SpreadOp("set_vfs")

NextGate ==
    \/ \E ctx \in Ctxs : Arrive(ctx)
    \/ GateCall
    \/ SavePemCert

SpecGate == Init /\ [][NextGate]_vars

\* ------------------------------------------------------------ properties
HasListener(b, r) == \E i \in DOMAIN b : b[i].h = r
ListKinds == {"connections", "plugins"}
Active(r) == res[r] = "stream" /\ kind[r] \in ListKinds /\ offRuns[r] = 0

\* the stream P1 prescribes: Add of each snapshot item, the marker, then the diffs
Prescribed(items, diffs) ==
    [i \in 1..Len(items) |-> [t |-> "add", k |-> items[i].k, d |-> items[i].d]]
    \o << [t |-> "init", k |-> << >>, d |-> ""] >> \o diffs

\* C1: while a get_connections / get_plugins subscription is active, its stream is
\* exactly the adds of the producer's items at handling time, in enumeration order,
\* then 'init', then one diff per mutation published since, in order
C1_SnapshotThenDiffs ==
    \A r \in Reqs : Active(r) => stream[r] = Prescribed(snap[r], muts[r])

\* a subscription taken over a non-empty producer that has since seen a mutation
C1_Witness ==
    \E r \in Reqs : Active(r) /\ Len(snap[r]) > 0 /\ Len(muts[r]) > 0

\* C2: once a subscription's unsubscribe function has run, no step appends a frame
\* to its stream and none of its listeners is on the bus
C2_SilentAfterTeardown ==
    [][\A r \in Reqs : offRuns[r] > 0 =>
          stream'[r] = stream[r] /\ ~HasListener(bus, r) /\ ~HasListener(bus', r)]_vars

\* a torn-down subscription, and a later one to the same producer that has received
\* more diffs: an event was published after the teardown
C2_Witness ==
    \E r, q \in Reqs :
        /\ r < q /\ kind[r] = kind[q] /\ kind[r] \in ListKinds
        /\ offRuns[r] > 0 /\ Len(muts[q]) > Len(muts[r])

CountL(b, l) == Cardinality({ i \in DOMAIN b : b[i] = l })
Range(q) == { q[i] : i \in DOMAIN q }

\* C4: the step that runs a subscription's unsubscribe function removes each of its
\* listeners exactly once and no other listener, and running the function again on
\* the resulting registration table leaves the table as it is
C4_IdempotentTeardown ==
    [][\A r \in Reqs : offRuns'[r] = offRuns[r] + 1 =>
          /\ \A l \in Range(bus) :
                CountL(bus', l) = CountL(bus, l) - (IF l.h = r THEN 1 ELSE 0)
          /\ RunOff(off[r], bus') = bus']_vars

\* the unsubscribe function of one subscription has run while another subscription
\* to the same events is still registered
C4_Witness ==
    \E r, q \in Reqs :
        /\ r # q /\ kind[r] = kind[q] /\ kind[r] \in ListKinds
        /\ offRuns[r] = 1 /\ offRuns[q] = 0 /\ HasListener(bus, q)


\* C3: when the connection of a streaming request has closed and the request has no
\* step of its own left to run, none of its listeners is on the bus
C3_ClosedThenUnsubscribed ==
    \A r \in Reqs :
        (closed[r] /\ res[r] = "stream" /\ lstate[r] \notin {"reading", "eof"})
            => ~HasListener(bus, r)

\* C5: a get_log request cancelled while its file was being read never goes live:
\* no listener is registered for it and nothing is pushed after the cancellation
C5_NoLiveAfterCancel ==
    \A r \in Reqs :
        abortAt[r] = "reading" =>
            lstate[r] # "live" /\ ~HasListener(bus, r) /\ late[r] = 0

\* the step changes nothing but what is reported to the caller
NoEffect ==
    /\ UNCHANGED << adminVars, prodVars, chanVars, obsVars, dcall,
                    kind, closed, closeL, off, offRuns, lpos, lstate >>
    /\ \A r \in Reqs : res'[r] # res[r] => res'[r] = "401"

\* C6: a call of any operation with a context that fails ctxAdminAccess returns
\* Unauthorized and changes nothing else, whatever the context and the parameters
C6_UnauthorizedNoEffect ==
    [][(GateCall /\ ~ctxAdminAccess(config, caller)) => (last' = "401" /\ NoEffect)]_vars

\* a refused call has been made and nothing was written, registered or streamed
C6_Witness ==
    /\ ~ctxAdminAccess(config, caller) /\ last = "401"
    /\ files = {} /\ ~vfs /\ bus = << >> /\ \E r \in Reqs : res[r] = "401"

\* C7: a call is admitted exactly when (loopback origin and localhost_admin set and
\* not proxied) or the account is an admin
C7_AccessTruthTable ==
    [][GateCall =>
          (last' = "401" <=> ~((caller.local /\ config.localhost_admin /\ ~caller.proxied)
                               \/ caller.admin))]_vars

\* a proxied loopback request without an admin account has been refused while
\* localhost_admin was set
C7_Witness ==
    /\ caller = [local |-> TRUE, proxied |-> TRUE, admin |-> FALSE]
    /\ config.localhost_admin /\ last = "401"

Shows(r, t, c) ==
    \E i \in DOMAIN stream[r] : stream[r][i].t = t /\ stream[r][i].k[2] = RemotePort(c)

\* C8: with a connection stream active that showed the connection, a disconnect
\* called with wait=true has returned only if the socket is closed and the stream
\* holds the connection's remove frame
C8_ReturnsAfterClose ==
    \A r \in Reqs :
        ( /\ dcall.st = "returned" /\ dcall.wait /\ dcall.c # 0
          /\ Active(r) /\ Shows(r, "add", dcall.c) )
        => (sock[dcall.c] = "closed" /\ Shows(r, "remove", dcall.c))

\* C9: an admitted set_config whose values leave both port and https_port negative
\* is answered FORBIDDEN and leaves the configuration as it was
C9_RejectsBothOff ==
    [][\A v \in ConfigValues :
          ( /\ Values(v) /\ ctxAdminAccess(config, caller)
            /\ (IF "port" \in DOMAIN v THEN v.port ELSE config.port) < 0
            /\ (IF "https_port" \in DOMAIN v THEN v.https_port ELSE config.https_port) < 0
            /\ SetConfig(TRUE, v) )
          => (last' = "FORBIDDEN" /\ config' = config)]_vars

\* a change was refused while both listeners were up and both ports enabled
C9_Witness ==
    /\ last = "FORBIDDEN"
    /\ srv.http /\ srv.https /\ config.port >= 0 /\ config.https_port >= 0

\* C10: nothing is pushed to a list stream after its connection has closed
C10_NoPushAfterDetach ==
    \A r \in Reqs : kind[r] \in ListKinds => late[r] = 0

\* a list stream, whether or not its connection is still open
Listed(r) == res[r] = "stream" /\ kind[r] \in ListKinds

\* C11: every stream made by sendList starts with one add frame per initial item, in
\* the order of the items, followed by 'init'; 'init' occurs nowhere else, so every
\* frame of a later add / remove / update comes after it
C11_AddsThenMarker ==
    \A r \in Reqs : Listed(r) =>
        LET n == Len(snap[r]) IN
        /\ Len(stream[r]) > n
        /\ \A i \in 1..n : stream[r][i] = Frame("add", snap[r][i].k, snap[r][i].d)
        /\ stream[r][n + 1] = InitFrame
        /\ \A i \in DOMAIN stream[r] : stream[r][i].t = "init" => i = n + 1

\* a stream built over a non-empty list that has since received a live frame
C11_Witness ==
    \E r \in Reqs :
        Listed(r) /\ Len(snap[r]) > 0 /\ Len(stream[r]) > Len(snap[r]) + 1

\* C12: every step appends to a list stream exactly the diffs of the events delivered
\* to its subscription in that step, after the frames already there; so the k-th
\* frame after 'init' is the diff of the k-th delivered event and no appended frame
\* is lost or moved
C12_LiveFramesInEventOrder ==
    [][\A r \in Reqs : Listed(r) =>
          /\ stream'[r] = stream[r] \o SubSeq(muts'[r], Len(muts[r]) + 1, Len(muts'[r]))
          /\ Len(stream'[r]) = Len(snap[r]) + 1 + Len(muts'[r])
          /\ \A k \in 1..Len(muts'[r]) : stream'[r][Len(snap[r]) + 1 + k] = muts'[r][k]]_vars

\* a subscription that has been delivered two different events
C12_Witness ==
    \E r \in Reqs :
        /\ Listed(r) /\ Len(muts[r]) >= 2 /\ muts[r][1].t # muts[r][2].t
        /\ Len(stream[r]) = Len(snap[r]) + 3

\* C13: an admitted get_log whose 'file' names no configured logger answers 404 and
\* does nothing else: no stream, no read of a file, no listener on the event bus and
\* no 'close' listener; and nothing is ever done for that request afterwards
C13_UnknownLogNotFound ==
    [][\A r \in Reqs :
          /\ \A file \in FileParams \ LoggerNames :
                (GetLog(r, file) /\ ctxAdminAccess(config, caller)) =>
                    /\ res'[r] = "404" /\ last' = "404"
                    /\ UNCHANGED << adminVars, prodVars, chanVars, obsVars, dcall,
                                    kind, closed, closeL, off, offRuns, lpos, lstate >>
          /\ res[r] = "404" =>
                /\ res'[r] = "404" /\ stream'[r] = << >> /\ lstate'[r] = "none"
                /\ ~closeL'[r] /\ ~HasListener(bus', r)]_vars

\* an unknown log was asked for while another request streams the known log live,
\* and an entry has been logged since
C13_Witness ==
    \E r, q \in Reqs :
        /\ res[r] = "404" /\ lstate[q] = "live" /\ HasListener(bus, q)
        /\ Len(stream[q]) > 0 /\ stream[r] = << >>

\* C14: an admitted save_pem without certificate or without private key answers 400
\* and writes no file; with both, it writes exactly name.key, then exactly name.cert,
\* and returns these two names
C14_SavePemRejectsOrWrites ==
    [][\A name \in PemNames :
          /\ \A cert, key \in BOOLEAN :
                (SavePem(cert, key, name) /\ ctxAdminAccess(config, caller)) =>
                    IF ~cert \/ ~key
                    THEN last' = "400" /\ files' = files /\ pem' = pem /\ ret' = ret
                    ELSE files' = files \cup { << name, "key" >> } /\ pem' = name
          /\ (pem = name /\ SavePemCert) =>
                /\ files' = files \cup { << name, "cert" >> }
                /\ { << name, "key" >>, << name, "cert" >> } \subseteq files'
                /\ ret' = [cert |-> << name, "cert" >>, private_key |-> << name, "key" >>]
                /\ last' = "ok"]_vars

\* a request without key was rejected when nothing had been written, and a complete
\* request under another name has been carried out since
C14_Witness ==
    /\ files = { << "my", "key" >>, << "my", "cert" >> }
    /\ ret.cert = << "my", "cert" >> /\ last = "400"

NoDup(q) == \A i, j \in DOMAIN q : q[i] = q[j] => i = j

ListenersOf(b, q) == SelectSeq(b, LAMBDA l : l.h = q)

\* C16: the step that tears one subscription down leaves the registrations of every
\* other request as they were; no listener is ever registered twice; and a request
\* with listeners on the bus gets, in every step, exactly one frame per event
\* published for its list, also after another subscription was torn down
C16_TeardownLeavesOthers ==
    [][\A q \in Reqs :
          /\ (\E r \in Reqs \ {q} : offRuns'[r] # offRuns[r]) =>
                 ListenersOf(bus', q) = ListenersOf(bus, q) /\ stream'[q] = stream[q]
          /\ \A i, j \in DOMAIN bus : bus[i] = bus[j] => i = j
          /\ (Listed(q) /\ HasListener(bus, q)) =>
                 /\ Len(stream'[q]) - Len(stream[q]) = Len(muts'[q]) - Len(muts[q])
                 /\ Len(stream'[q]) - Len(stream[q]) \in {0, 1}
                 /\ (nmut' # nmut /\ \E r \in Reqs \ {q} :
                        kind[r] = kind[q] /\ Len(muts'[r]) > Len(muts[r]))
                    => Len(stream'[q]) = Len(stream[q]) + 1]_vars

\* two subscriptions to the same list taken over the same items; one was torn down
\* before any event, the other has since received the add of a new item
C16_Witness ==
    \E q, r \in Reqs :
        /\ q # r /\ Listed(q) /\ Listed(r) /\ kind[q] = kind[r]
        /\ offRuns[r] = 1 /\ offRuns[q] = 0 /\ snap[r] = snap[q]
        /\ muts[r] = << >> /\ Len(muts[q]) = 1 /\ muts[q][1].t = "add"
        /\ stream[q] = Prescribed(snap[q], muts[q])

\* C17: once a get_log request whose connection is open has gone live, its stream
\* holds every entry of the log exactly once, in the order of the log: the entries
\* read from the file first, then the entries received from the event bus
C17_EveryEntryOnce ==
    \A r \in Reqs :
        (kind[r] = "log" /\ lstate[r] = "live" /\ ~closed[r])
            => stream[r] = [i \in 1..logLen |-> Frame("add", << i >>, "entry")]

\* C18: in a connection stream, every remove frame and every update frame comes after
\* an add frame of the same connection (the one with the same socket port), and its
\* key is the key of that add frame
C18_KeyOfAddKept ==
    \A r \in Reqs : (Listed(r) /\ kind[r] = "connections") =>
        \A i \in DOMAIN stream[r] :
            stream[r][i].t \in {"remove", "update"} =>
                /\ \E j \in 1..(i - 1) :
                      stream[r][j].t = "add" /\ stream[r][j].k[2] = stream[r][i].k[2]
                /\ \A j \in 1..(i - 1) :
                      (stream[r][j].t = "add" /\ stream[r][j].k[2] = stream[r][i].k[2])
                          => stream[r][j].k = stream[r][i].k

\* C19: a disconnect call never stays suspended for good: while it waits, the step
\* that resolves its waiter (the end of the socket it found) is still to come; and
\* once returned, its result tells whether a connection was found
C19_DisconnectReturns ==
    /\ dcall.st = "waiting" => (dcall.c # 0 /\ sock[dcall.c] = "ending")
    /\ dcall.st = "returned" => (dcall.result <=> dcall.c # 0)

\* C20: an admitted set_config whose values leave port or https_port non-negative is
\* carried out: the values are stored and the call succeeds, whatever the listeners'
\* state
C20_AppliesWhenAPortStays ==
    [][\A v \in ConfigValues :
          ( /\ Values(v) /\ ctxAdminAccess(config, caller)
            /\ \/ (IF "port" \in DOMAIN v THEN v.port ELSE config.port) >= 0
               \/ (IF "https_port" \in DOMAIN v THEN v.https_port ELSE config.https_port) >= 0
            /\ SetConfig(TRUE, v) )
          => (last' = "ok" /\ config' = [k \in DOMAIN config |->
                                            IF k \in DOMAIN v THEN v[k] ELSE config[k]])]_vars

====
